---- MODULE Spec2Model ----
(***************************************************************************)
(* A model of m4b2ogg.py: the per-file conversion loop (book_info, the     *)
(* transcode guard, side assets, the cue merge scan, chapter extraction,   *)
(* the cue write) and the cue timing engine create_cue_sheet.              *)
(*                                                                         *)
(* Text is modelled as a sequence of tokens; the token <<"NL">> is the     *)
(* newline character, every other token is a run of characters that holds  *)
(* no newline.  A file is the token sequence of its bytes, a line is a     *)
(* token sequence that ends with NL (or the unterminated tail of a file).  *)
(***************************************************************************)
EXTENDS Integers, Sequences, FiniteSets, TLC

----------------------------------------------------------------------------
(* Python float arithmetic (IEEE-754 binary64, round to nearest even) on   *)
(* the non-negative values create_cue_sheet computes with.  A float is the *)
(* record [ip, fr]: its integer part and the bits of its fraction, most    *)
(* significant first, so its value is ip + 0.fr in binary.                 *)

\* Number of significant bits of a Python float.
MantBits == 53

RECURSIVE BitLen(_)
BitLen(n) == IF n = 0 THEN 0 ELSE 1 + BitLen(n \div 2)

\* Number of zero bits before the first one bit (all of them when none is one).
LeadZeros(bits) ==
    IF \A i \in 1..Len(bits) : bits[i] = 0 THEN Len(bits)
    ELSE (CHOOSE i \in 1..Len(bits) :
              bits[i] = 1 /\ \A j \in 1..(i - 1) : bits[j] = 0) - 1

\* The eight bits of a byte 0..255, most significant first.
ByteBits(v) == [i \in 1..8 |-> (v \div 2 ^ (8 - i)) % 2]

\* The byte that the eight bits from position from hold (bits past the end
\* count as zero).
ByteAt(bits, from) ==
    LET bit(i) == IF i <= Len(bits) THEN bits[i] ELSE 0
    IN  128 * bit(from) + 64 * bit(from + 1) + 32 * bit(from + 2)
        + 16 * bit(from + 3) + 8 * bit(from + 4) + 4 * bit(from + 5)
        + 2 * bit(from + 6) + bit(from + 7)

\* The first 8*k bits of the binary expansion of rem/d (0 <= rem < d), and
\* the remainder left after them: long division, a byte at a time.
RECURSIVE DivBits(_, _, _)
DivBits(rem, d, k) ==
    IF k = 0 THEN [bits |-> <<>>, rem |-> rem]
    ELSE LET rest == DivBits((256 * rem) % d, d, k - 1)
         IN  [bits |-> ByteBits((256 * rem) \div d) \o rest.bits,
              rem  |-> rest.rem]

\* bits + 1 at the last place: the new bits and the carry out of the first.
IncBits(bits) ==
    LET zeros == {i \in 1..Len(bits) : bits[i] = 0}
        p     == IF zeros = {} THEN 0
                 ELSE CHOOSE i \in zeros : \A j \in zeros : j <= i
    IN  [bits  |-> [i \in 1..Len(bits) |->
                       IF i < p THEN bits[i] ELSE IF i = p THEN 1 ELSE 0],
         carry |-> IF p = 0 THEN 1 ELSE 0]

\* The float nearest to the exact value ip + 0.bits (+ something below the
\* last bit when sticky), ties to even.
FloatRound(ip, bits, sticky) ==
    LET keep == IF ip > 0 THEN MantBits - BitLen(ip)
                ELSE LeadZeros(bits) + MantBits
    IN  IF Len(bits) <= keep THEN [ip |-> ip, fr |-> bits]
        ELSE LET kept  == SubSeq(bits, 1, keep)
                 half  == bits[keep + 1] = 1
                 below == sticky \/ \E i \in (keep + 2)..Len(bits) : bits[i] = 1
                 odd   == IF keep = 0 THEN ip % 2 = 1 ELSE bits[keep] = 1
                 inc   == IncBits(kept)
             IN  IF half /\ (below \/ odd)
                 THEN [ip |-> ip + inc.carry, fr |-> inc.bits]
                 ELSE [ip |-> ip, fr |-> kept]

\* float(n) / float(d) for integers n >= 0, d > 0: enough bits of the exact
\* quotient to round it (the first one bit of the fraction comes within
\* BitLen(d) places), then rounded.
FloatDiv(n, d) ==
    LET ip  == n \div d
        rem == n % d
        q   == DivBits(rem, d, (MantBits + BitLen(d)) \div 8 + 1)
    IN  IF rem = 0 THEN [ip |-> ip, fr |-> <<>>]
        ELSE FloatRound(ip, q.bits, q.rem # 0)

\* bits * c + carry, exactly, a byte at a time from the last byte: the
\* product's low 8*k bits and the part above them.
RECURSIVE MulBits(_, _, _, _)
MulBits(bits, c, carry, k) ==
    IF k = 0 THEN [bits |-> <<>>, carry |-> carry]
    ELSE LET v == c * ByteAt(bits, 8 * k - 7) + carry
             r == MulBits(bits, c, v \div 256, k - 1)
         IN  [bits |-> r.bits \o ByteBits(v % 256), carry |-> r.carry]

\* x % 1 of a float x >= 0 (exact).
FloatFrac(x) == [ip |-> 0, fr |-> x.fr]

\* x * c for a float 0 <= x < 1 and a small integer c.
FloatMul(x, c) ==
    LET p == MulBits(x.fr, c, 0, (Len(x.fr) + 7) \div 8)
    IN  FloatRound(p.carry, p.bits, FALSE)

\* int(x) of a float x >= 0.
FloatInt(x) == x.ip

----------------------------------------------------------------------------
(* create_cue_sheet.  accumulated_time is a timedelta of whole seconds, so  *)
(* total_seconds() is the float of an integer and the float % of it by the *)
(* integer timebase*60 is exact: acc and acc % (timebase*60) are integers. *)

\* Frames per second of a cue sheet INDEX.
CueFrames == 75

Minutes(acc, timebase) == FloatInt(FloatDiv(acc, timebase * 60))

Seconds(acc, timebase) == FloatInt(FloatDiv(acc % (timebase * 60), timebase))

Frames(acc, timebase) ==
    FloatInt(FloatMul(FloatFrac(FloatDiv(acc % (timebase * 60), timebase)),
                      CueFrames))

NL == <<"NL">>

\* One value yielded by the generator: the three lines of a track, the last
\* one without a newline.
CueSheetEntry(track_index, name, acc, timebase) ==
    << <<"TRACK", track_index>>, NL,
       <<"TITLE", name>>, NL,
       <<"INDEX", Minutes(acc, timebase), Seconds(acc, timebase),
                  Frames(acc, timebase)>> >>

\* The values create_cue_sheet yields from track i on (tracks are numbered
\* from 0, zip stops at the shortest list), with acc accumulated so far.
RECURSIVE CueEntriesFrom(_, _, _, _, _)
CueEntriesFrom(i, acc, nms, times, tbs) ==
    IF i > Len(nms) \/ i > Len(times) \/ i > Len(tbs) THEN <<>>
    ELSE <<CueSheetEntry(i - 1, nms[i], acc, tbs[i])>>
         \o CueEntriesFrom(i + 1, acc + times[i], nms, times, tbs)

create_cue_sheet(nms, times, tbs) == CueEntriesFrom(1, 0, nms, times, tbs)

\* ''.join(entries)
RECURSIVE Join(_)
Join(entries) ==
    IF entries = <<>> THEN <<>> ELSE Head(entries) \o Join(Tail(entries))

----------------------------------------------------------------------------
(* Text files: iterating a file yields its lines, each with its newline.   *)

RECURSIVE Lines(_)
Lines(content) ==
    IF content = <<>> THEN <<>>
    ELSE LET nls == {i \in 1..Len(content) : content[i] = NL}
         IN  IF nls = {} THEN <<content>>
             ELSE LET k == CHOOSE i \in nls : \A j \in nls : i <= j
                  IN  <<SubSeq(content, 1, k)>>
                      \o Lines(SubSeq(content, k + 1, Len(content)))

\* line.startswith('FILE ')
StartsWithFile(line) == line # <<>> /\ line[1][1] = "FILE"

\* Paths are <<stem, suffix>>: os.path.splitext(p)[0] is the stem.
Path(stem, suffix) == <<stem, suffix>>

M4bPath(b)       == Path(b, ".m4b")
OgaPath(b)       == Path(b, ".oga")
CanonicalCue(b)  == Path(b, ".cue")
SideCue(b)       == Path(b, "_oga.cue")
CoverPath(b)     == Path(b, "_cover.jpg")
InfoPath(b)      == Path(b, "_info.txt")

\* FILE_LINE_OGA: 'FILE "<basename of the oga>" OGA\n'
FileLineOga(b) == << <<"FILE", OgaPath(b), "OGA">>, NL >>

\* The scan without its break: a FILE line after the computed one decides.
RECURSIVE ScanWithoutBreak(_, _, _, _, _)
ScanWithoutBreak(lines, i, fileLine, replace, contents) ==
    IF i > Len(lines) THEN [REPLACE_CUE |-> replace, CUE_CONTENTS |-> contents]
    ELSE IF lines[i] = fileLine
         THEN ScanWithoutBreak(lines, i + 1, fileLine, TRUE, contents)
    ELSE IF StartsWithFile(lines[i])
         THEN ScanWithoutBreak(lines, i + 1, fileLine, FALSE, contents)
    ELSE ScanWithoutBreak(lines, i + 1, fileLine, replace, contents \o lines[i])

\* The scan without line 261: no line of the existing file is kept.
RECURSIVE ScanKeepingNothing(_, _, _, _, _)
ScanKeepingNothing(lines, i, fileLine, replace, contents) ==
    IF i > Len(lines) THEN [REPLACE_CUE |-> replace, CUE_CONTENTS |-> contents]
    ELSE IF lines[i] = fileLine
         THEN [REPLACE_CUE |-> TRUE, CUE_CONTENTS |-> contents]
    ELSE IF StartsWithFile(lines[i])
         THEN ScanKeepingNothing(lines, i + 1, fileLine, FALSE, contents)
    ELSE ScanKeepingNothing(lines, i + 1, fileLine, replace, contents)

\* The scan of an existing cue file from line i on: the loop's REPLACE_CUE
\* and CUE_CONTENTS when it ends (at the end of the file or at the break).
RECURSIVE ScanFrom(_, _, _, _, _)
ScanFrom(lines, i, fileLine, replace, contents) ==
    IF i > Len(lines) THEN [REPLACE_CUE |-> replace, CUE_CONTENTS |-> contents]
    ELSE IF lines[i] = fileLine
         THEN [REPLACE_CUE |-> TRUE, CUE_CONTENTS |-> contents]
    ELSE IF StartsWithFile(lines[i])
         THEN ScanFrom(lines, i + 1, fileLine, FALSE, contents)
    ELSE ScanFrom(lines, i + 1, fileLine, replace, contents \o lines[i])

ScanCue(content, fileLine) == ScanFrom(Lines(content), 1, fileLine, TRUE, <<>>)

----------------------------------------------------------------------------
(* book_info and extract_description: lookups in the format tags.  The     *)
(* tags are a dict: a sequence of <<key, value>> with distinct keys, in    *)
(* the dict's order.                                                       *)

TagKeys == {"artist", "Artist", "ARTIST", "performer", "PERFORMER",
            "album", "ALBUM", "title", "TITLE",
            "comment", "Comment", "description"}

\* str.upper
Upper(k) ==
    CASE k \in {"artist", "Artist", "ARTIST"} -> "ARTIST"
      [] k \in {"performer", "PERFORMER"}     -> "PERFORMER"
      [] k \in {"album", "ALBUM"}             -> "ALBUM"
      [] k \in {"title", "TITLE"}             -> "TITLE"
      [] k \in {"comment", "Comment"}         -> "COMMENT"
      [] k = "description"                    -> "DESCRIPTION"

\* str.lower
Lower(k) ==
    CASE k \in {"artist", "Artist", "ARTIST"} -> "artist"
      [] k \in {"performer", "PERFORMER"}     -> "performer"
      [] k \in {"album", "ALBUM"}             -> "album"
      [] k \in {"title", "TITLE"}             -> "title"
      [] k \in {"comment", "Comment"}         -> "comment"
      [] k = "description"                    -> "description"

\* str.strip on the tag values of the model
Strip(v) == IF v = " " THEN "" ELSE v

\* list.index: the first position of v, 0 for ValueError.
Index(seq, v) ==
    IF \E i \in 1..Len(seq) : seq[i] = v
    THEN CHOOSE i \in 1..Len(seq) : seq[i] = v /\ \A j \in 1..(i - 1) : seq[j] # v
    ELSE 0

\* The marker of a probe result that has no 'tags' (or of a failed probe).
NoTags == << <<"", "">> >>

\* book_info(file): [raised, performer, title].
book_info(tags, stem) ==
    LET keys       == [i \in 1..Len(tags) |-> tags[i][1]]
        keys_upper == [i \in 1..Len(tags) |-> Upper(keys[i])]
        artist     == Index(keys_upper, "ARTIST")
        perf       == Index(keys_upper, "PERFORMER")
        literal    == Index(keys, "performer")
        album      == Index(keys_upper, "ALBUM")
        ttl        == Index(keys_upper, "TITLE")
        title      == IF album # 0 THEN tags[album][2]
                      ELSE IF ttl # 0 THEN tags[ttl][2]
                      ELSE stem
    IN  IF tags = NoTags
        THEN [raised |-> "KeyError", performer |-> "", title |-> ""]
        ELSE IF artist # 0
        THEN [raised |-> "", performer |-> tags[artist][2], title |-> title]
        ELSE IF perf # 0
        THEN [raised |-> "", performer |-> tags[perf][2], title |-> title]
        ELSE IF literal # 0
        THEN [raised |-> "", performer |-> tags[literal][2], title |-> title]
        ELSE [raised |-> "KeyError", performer |-> "", title |-> ""]

DescriptionFields ==
    <<"description", "comment", "title_more", "synopsis", "summary">>

\* metadata_lower[field]: the value of the last key that lowers to field.
LowerValue(tags, field) ==
    LET hits == {i \in 1..Len(tags) : Lower(tags[i][1]) = field}
    IN  IF hits = {} THEN ""
        ELSE Strip(tags[CHOOSE i \in hits : \A j \in hits : j <= i][2])

\* extract_description: the first non-empty stripped field, "" for None.
extract_description(tags) ==
    IF tags = NoTags THEN ""
    ELSE LET found == {i \in 1..Len(DescriptionFields) :
                          LowerValue(tags, DescriptionFields[i]) # ""}
         IN  IF found = {} THEN ""
             ELSE LowerValue(tags, DescriptionFields[
                      CHOOSE i \in found : \A j \in found : i <= j])

----------------------------------------------------------------------------
(* The chapter extraction loop.  A chapter is [title, start, end,          *)
(* time_base]; a numeric field is <<"int", n>> when int() parses it (for   *)
(* time_base: the part after the '/') and <<"str", text>> when int()       *)
(* raises ValueError.                                                      *)

TimebaseLimit == 10000
TimebaseClamp == 1000

IsInt(field) == field[1] = "int"

\* The marker of a chapter probe that raises (ffprobe fails, or a chapter
\* has no title tag: KeyError), which the loop does not catch.
ChaptersFail == << [title |-> "", start |-> <<"str", "">>,
                    end |-> <<"str", "">>, time_base |-> <<"str", "">>] >>

\* The three lists after the loop has gone over chapters i.. : a ValueError
\* leaves the appends made before it in place.
RECURSIVE ExtractFrom(_, _, _, _, _)
ExtractFrom(chapters, i, nms, times, tbs) ==
    IF i > Len(chapters)
    THEN [names |-> nms, track_times |-> times, timebases |-> tbs]
    ELSE LET c    == chapters[i]
             nms2 == Append(nms, c.title)
         IN  IF ~(IsInt(c.end) /\ IsInt(c.start))
             THEN ExtractFrom(chapters, i + 1, nms2, times, tbs)
             ELSE LET times2 == Append(times, c.end[2] - c.start[2])
                  IN  IF ~IsInt(c.time_base)
                      THEN ExtractFrom(chapters, i + 1, nms2, times2, tbs)
                      ELSE ExtractFrom(chapters, i + 1, nms2, times2,
                               Append(tbs, IF c.time_base[2] > TimebaseLimit
                                           THEN TimebaseClamp
                                           ELSE c.time_base[2]))

ExtractChapters(chapters) == ExtractFrom(chapters, 1, <<>>, <<>>, <<>>)

----------------------------------------------------------------------------
(* The state: the command line, the media the probe reads, the file        *)
(* system, the position in the per-file loop and its locals, and the       *)
(* record of what the runs did.                                            *)

\* Bounds of the model.
MaxFiles  == 2      \* input files on a command line
MaxRuns   == 2      \* invocations of the command
MaxTracks == 3      \* tracks given to create_cue_sheet on its own

VARIABLES
    args,             \* args.audio_file: the stems of the input files
    tagsOf,           \* stem -> the format tags ffprobe reports (or NoTags)
    chaptersOf,       \* stem -> the chapters ffprobe reports (or ChaptersFail)
    fs,               \* path -> [exists, data]
    pc, idx, run,     \* the statement, the file and the invocation
    performer, title,
    REPLACE_CUE, CUE_PATH, CUE_CONTENTS,
    names, track_times, timebases,
    accumulated_time, track_index, yielded,  \* create_cue_sheet's generator
    written,          \* the cue files written, in order
    transcoded,       \* {<<run, stem>>}: the m4b2opus calls
    caught,           \* {<<run, idx, step>>}: exceptions caught in this run
    raised            \* <<run, idx, step>> of the exception that ended a run

vars == <<args, tagsOf, chaptersOf, fs, pc, idx, run, performer, title,
          REPLACE_CUE, CUE_PATH, CUE_CONTENTS, names, track_times, timebases,
          accumulated_time, track_index, yielded,
          written, transcoded, caught, raised>>

Absent     == [exists |-> FALSE, data |-> <<>>]
File(data) == [exists |-> TRUE, data |-> data]

\* os.path.isfile
isfile(path) == fs[path].exists

NotRaised == <<0, 0, "">>

locals == <<performer, title, REPLACE_CUE, CUE_PATH, CUE_CONTENTS,
            names, track_times, timebases>>

\* The loop's locals are all assigned before they are read in an iteration;
\* between iterations the model holds them at these values.
LocalsCleared ==
    /\ performer' = "" /\ title' = ""
    /\ REPLACE_CUE' = TRUE /\ CUE_PATH' = Path("", "") /\ CUE_CONTENTS' = <<>>
    /\ names' = <<>> /\ track_times' = <<>> /\ timebases' = <<>>

generator == <<accumulated_time, track_index, yielded>>
media     == <<args, tagsOf, chaptersOf>>

Raise(step) ==
    /\ pc' = "aborted"
    /\ raised' = <<run, idx, step>>
    /\ LocalsCleared

----------------------------------------------------------------------------
(* The per-file loop of __main__, one action per statement group.          *)

\* line 210: performer, title = book_info(file.name)
BookInfo ==
    /\ pc = "book_info"
    /\ LET r == book_info(tagsOf[args[idx]], args[idx])
       IN  IF r.raised # ""
           THEN Raise("book_info")
           ELSE /\ performer' = r.performer
                /\ title' = r.title
                /\ pc' = "transcode"
                /\ UNCHANGED <<REPLACE_CUE, CUE_PATH, CUE_CONTENTS, names,
                               track_times, timebases, raised>>
    /\ UNCHANGED <<media, fs, idx, run, generator, written, transcoded, caught>>

\* The guard left out: every run transcodes.
AlwaysTranscode(oga_exists) == TRUE

\* line 213: if not os.path.isfile(oga_file)
NeedsTranscode(oga_exists) == ~oga_exists

\* lines 211-214: m4b2opus runs the engine, which writes the .oga, or
\* raises ffmpeg.Error with or without a partial output left behind.
Transcode ==
    /\ pc = "transcode"
    /\ IF ~NeedsTranscode(isfile(OgaPath(args[idx])))
       THEN /\ pc' = "cover"
            /\ UNCHANGED <<fs, transcoded, raised, locals>>
       ELSE /\ transcoded' = transcoded \cup {<<run, args[idx]>>}
            /\ \E outcome \in {"ok", "error", "partial"} :
                 /\ fs' = IF outcome = "error" THEN fs
                          ELSE [fs EXCEPT ![OgaPath(args[idx])] =
                                   File(<< <<"OPUS", outcome>> >>)]
                 /\ IF outcome = "ok"
                    THEN pc' = "cover" /\ UNCHANGED <<raised, locals>>
                    ELSE Raise("transcode")
    /\ UNCHANGED <<media, idx, run, generator, written, caught>>

\* extract_cover_art without its except clause.
CoverArtUncaught(outcome, existed) ==
    [cover  |-> outcome = "file" \/ (outcome = "nofile" /\ existed),
     raised |-> IF outcome = "error" THEN "ffmpeg.Error" ELSE ""]

\* extract_cover_art: [cover, raised] for what the engine did: wrote the
\* jpg ("file"), ended without one ("nofile"), or raised ffmpeg.Error
\* ("error"), which the function catches.
extract_cover_art(outcome, existed) ==
    [cover  |-> outcome = "file" \/ (outcome = "nofile" /\ existed),
     raised |-> ""]

\* lines 217-221
CoverArt ==
    /\ pc = "cover"
    /\ \E outcome \in {"file", "nofile", "error"} :
         LET r == extract_cover_art(outcome, isfile(CoverPath(args[idx])))
         IN  /\ fs' = IF outcome = "file"
                      THEN [fs EXCEPT ![CoverPath(args[idx])] =
                               File(<< <<"JPEG">> >>)]
                      ELSE fs
             /\ caught' = IF outcome = "error"
                          THEN caught \cup {<<run, idx, "cover">>}
                          ELSE caught
             /\ IF r.raised # ""
                THEN Raise("cover")
                ELSE pc' = "description" /\ UNCHANGED <<raised, locals>>
    /\ UNCHANGED <<media, idx, run, generator, written, transcoded>>

\* lines 224-231: extract_description catches every exception of its probe
\* (probe_ok = FALSE) and returns None; a description goes to _info.txt.
Description ==
    /\ pc = "description"
    /\ \E probe_ok \in BOOLEAN :
         LET description == IF probe_ok
                            THEN extract_description(tagsOf[args[idx]])
                            ELSE ""
         IN  /\ fs' = IF description # ""
                      THEN [fs EXCEPT ![InfoPath(args[idx])] =
                               File(<< <<"TEXT", description>> >>)]
                      ELSE fs
             /\ caught' = IF probe_ok THEN caught
                          ELSE caught \cup {<<run, idx, "description">>}
    /\ pc' = "scan"
    /\ UNCHANGED <<media, idx, run, generator, written, transcoded, raised,
                   locals>>

\* Lines 263-264 left out: the canonical path whatever the scan found.
AlwaysCanonical(stem, replace) == CanonicalCue(stem)

\* lines 263-264: the path the cue sheet goes to.
CuePathFor(stem, replace) ==
    IF replace THEN CanonicalCue(stem) ELSE SideCue(stem)

\* lines 234-264: the merge scan of an existing cue file.
CueScan ==
    /\ pc = "scan"
    /\ names' = <<>> /\ track_times' = <<>> /\ timebases' = <<>>
    /\ IF isfile(CanonicalCue(args[idx]))
       THEN LET r == ScanCue(fs[CanonicalCue(args[idx])].data,
                             FileLineOga(args[idx]))
            IN  /\ REPLACE_CUE' = r.REPLACE_CUE
                /\ CUE_CONTENTS' = r.CUE_CONTENTS
                /\ CUE_PATH' = CuePathFor(args[idx], r.REPLACE_CUE)
       ELSE /\ REPLACE_CUE' = TRUE
            /\ CUE_CONTENTS' = <<>>
            /\ CUE_PATH' = CanonicalCue(args[idx])
    /\ pc' = "chapters"
    /\ UNCHANGED <<media, fs, idx, run, performer, title, generator, written,
                   transcoded, caught, raised>>

\* lines 266-286: the chapters are read and the cue sheet computed only
\* under REPLACE_CUE.
Chapters ==
    /\ pc = "chapters"
    /\ IF ~REPLACE_CUE
       THEN /\ pc' = "write"
            /\ UNCHANGED <<raised, locals>>
       ELSE IF chaptersOf[args[idx]] = ChaptersFail
       THEN Raise("chapters")
       ELSE LET r == ExtractChapters(chaptersOf[args[idx]])
            IN  /\ names' = r.names
                /\ track_times' = r.track_times
                /\ timebases' = r.timebases
                /\ CUE_CONTENTS' = Join(create_cue_sheet(
                                        r.names, r.track_times, r.timebases))
                /\ pc' = "write"
                /\ UNCHANGED <<performer, title, REPLACE_CUE, CUE_PATH, raised>>
    /\ UNCHANGED <<media, fs, idx, run, generator, written, transcoded, caught>>

\* lines 289-293: what the four writelines calls put in the file.
CueFileText(perf, ttl, fileLine, contents) ==
    << <<"PERFORMER", perf>>, NL, <<"TITLE", ttl>>, NL >> \o fileLine \o contents

\* lines 288-293, and the loop going on to the next file or ending.
WriteCue ==
    /\ pc = "write"
    /\ LET text == CueFileText(performer, title, FileLineOga(args[idx]),
                               CUE_CONTENTS)
       IN  /\ fs' = [fs EXCEPT ![CUE_PATH] = File(text)]
           /\ written' = Append(written,
                  [run |-> run, idx |-> idx, stem |-> args[idx],
                   path |-> CUE_PATH, replace |-> REPLACE_CUE,
                   before |-> fs[CanonicalCue(args[idx])],
                   after |-> fs'[CanonicalCue(args[idx])],
                   content |-> text])
    /\ IF idx < Len(args)
       THEN idx' = idx + 1 /\ pc' = "book_info"
       ELSE idx' = idx /\ pc' = "done"
    /\ LocalsCleared
    /\ UNCHANGED <<media, run, generator, transcoded, caught, raised>>

\* The command is run again on the same files.
Rerun ==
    /\ pc \in {"done", "aborted"}
    /\ run < MaxRuns
    /\ run' = run + 1
    /\ idx' = 1
    /\ pc' = "book_info"
    /\ raised' = NotRaised
    /\ caught' = {}
    /\ UNCHANGED <<media, fs, locals, generator, written, transcoded>>

\* One invocation of the command.
NextBatch ==
    \/ BookInfo
    \/ Transcode
    \/ CoverArt
    \/ Description
    \/ CueScan
    \/ Chapters
    \/ WriteCue

\* Invocations of the command, one after the other, on the same files.
Next ==
    \/ BookInfo
    \/ Transcode
    \/ CoverArt
    \/ Description
    \/ CueScan
    \/ Chapters
    \/ WriteCue
    \/ Rerun

----------------------------------------------------------------------------
(* create_cue_sheet on its own: one action per value the generator yields. *)

NextEntry ==
    /\ pc = "cue"
    /\ track_index < Len(names)
    /\ track_index < Len(track_times)
    /\ track_index < Len(timebases)
    /\ yielded' = Append(yielded,
                     CueSheetEntry(track_index, names[track_index + 1],
                                   accumulated_time,
                                   timebases[track_index + 1]))
    /\ accumulated_time' = accumulated_time + track_times[track_index + 1]
    /\ track_index' = track_index + 1
    /\ UNCHANGED <<media, fs, pc, idx, run, performer, title, REPLACE_CUE,
                   CUE_PATH, CUE_CONTENTS, names, track_times, timebases,
                   written, transcoded, caught, raised>>

----------------------------------------------------------------------------
(* The inputs.                                                             *)

AllStems == <<"a", "b", "c", "d">>

Range(seq) == {seq[i] : i \in 1..Len(seq)}

\* Format tags: cased variants of a key, aliases in either order, tags with
\* no artist and no performer, a blank description, no tags at all.
TagLists ==
    { NoTags,
      << <<"artist", "P1">>, <<"album", "T1">> >>,
      << <<"Artist", "P1">>, <<"ARTIST", "P2">>, <<"title", "T2">> >>,
      << <<"performer", "P2">>, <<"artist", "P1">> >>,
      << <<"PERFORMER", "P2">>, <<"TITLE", "T2">>, <<"ALBUM", "T1">>,
         <<"comment", "D1">> >>,
      << <<"title", "T2">>, <<"description", " ">>, <<"comment", "D0">>,
         <<"Comment", "D1">> >> }

Chapter(ttl, start, end, tb) ==
    [title |-> ttl, start |-> start, end |-> end, time_base |-> tb]

Num(n) == <<"int", n>>
Bad    == <<"str", "x">>

\* Chapter lists: none, one, two, a chapter whose start does not parse, a
\* chapter whose time base does not parse, a time base above the limit,
\* and a probe that raises.
ChapterLists ==
    { <<>>,
      << Chapter("A", Num(0), Num(4), Num(3)) >>,
      << Chapter("A", Num(0), Num(4), Num(3)),
         Chapter("B", Num(4), Num(10), Num(3)) >>,
      << Chapter("A", Bad, Num(4), Num(3)),
         Chapter("B", Num(4), Num(10), Num(3)) >>,
      << Chapter("A", Num(0), Num(4), Num(3)),
         Chapter("B", Num(4), Num(10), Bad),
         Chapter("C", Num(10), Num(11), Num(3)) >>,
      << Chapter("A", Num(0), Num(90500), Num(48000)),
         Chapter("B", Num(90500), Num(90500), Num(48000)) >>,
      ChaptersFail }

OtherFileLine(stem) == << <<"FILE", M4bPath(stem), "MP4">>, NL >>

OldTrack ==
    << <<"TRACK", 1>>, NL, <<"TITLE", "Old">>, NL, <<"INDEX", 0, 0, 0>>, NL >>

\* The canonical cue file before the first run: none, an empty one, one
\* without a FILE line, one of another audio file, one with the computed
\* FILE line after or before another FILE line, one whose last line is the
\* computed FILE line without its newline, and one this tool wrote.
CueFiles(stem) ==
    { Absent,
      File(<<>>),
      File(<< <<"PERFORMER", "Q">>, NL >> \o OldTrack),
      File(<< <<"PERFORMER", "Q">>, NL, <<"TITLE", "Old">>, NL >>
           \o OtherFileLine(stem) \o OldTrack),
      File(OtherFileLine(stem) \o FileLineOga(stem) \o OldTrack),
      File(FileLineOga(stem) \o OldTrack \o OtherFileLine(stem)),
      File(OldTrack \o << <<"FILE", OgaPath(stem), "OGA">> >>),
      File(CueFileText("Q", "Old", FileLineOga(stem), OldTrack)) }

PathsOf(stem) ==
    {M4bPath(stem), OgaPath(stem), CanonicalCue(stem), SideCue(stem),
     CoverPath(stem), InfoPath(stem)}

\* The files of the given stems: the input, perhaps an .oga of an earlier
\* conversion, and one of the cue files cues[stem].
FileSystems(stems, cues) ==
    { [path \in UNION {PathsOf(st) : st \in stems} |->
          CASE path[2] = ".m4b" -> File(<< <<"M4B">> >>)
            [] path[2] = ".oga" -> IF oga[path[1]]
                                   THEN File(<< <<"OPUS", "old">> >>)
                                   ELSE Absent
            [] path[2] = ".cue" -> cue[path[1]]
            [] OTHER            -> Absent] :
        oga \in [stems -> BOOLEAN],
        cue \in {c \in [stems -> UNION {cues[st] : st \in stems}] :
                    \A st \in stems : c[st] \in cues[st]} }

InitLoop ==
    /\ pc = "book_info" /\ idx = 1 /\ run = 1
    /\ performer = "" /\ title = ""
    /\ REPLACE_CUE = TRUE /\ CUE_PATH = Path("", "") /\ CUE_CONTENTS = <<>>
    /\ names = <<>> /\ track_times = <<>> /\ timebases = <<>>
    /\ accumulated_time = 0 /\ track_index = 0 /\ yielded = <<>>
    /\ written = <<>> /\ transcoded = {} /\ caught = {}
    /\ raised = NotRaised

\* One input file, every combination of the inputs above; the command is
\* run up to MaxRuns times.
Init ==
    /\ args = <<"a">>
    /\ tagsOf \in [{"a"} -> TagLists]
    /\ chaptersOf \in [{"a"} -> ChapterLists]
    /\ fs \in FileSystems({"a"}, [st \in {"a"} |-> CueFiles(st)])
    /\ InitLoop

Spec == Init /\ [][Next]_vars

\* One run over up to MaxFiles input files, each with tags or none, with
\* chapters or a failing chapter probe, with or without an .oga.
FewTagLists     == {NoTags, << <<"artist", "P1">>, <<"comment", "D1">> >>}
FewChapterLists == {ChaptersFail, << Chapter("A", Num(0), Num(4), Num(3)) >>}
NoCueFiles       == {Absent}

InitBatch ==
    /\ \E n \in 1..MaxFiles : args = SubSeq(AllStems, 1, n)
    /\ tagsOf \in [Range(args) -> FewTagLists]
    /\ chaptersOf \in [Range(args) -> FewChapterLists]
    /\ fs \in FileSystems(Range(args), [st \in Range(args) |-> NoCueFiles])
    /\ InitLoop

SpecBatch == InitBatch /\ [][NextBatch]_vars

\* create_cue_sheet called with lists of up to MaxTracks tracks.
Durations == {0, 4, 100, 1160}
Timebases == {1, 3, 1000}

InitCue ==
    /\ \E n \in 0..MaxTracks :
         /\ names = [i \in 1..n |-> "T"]
         /\ track_times \in [1..n -> Durations]
         /\ timebases \in [1..n -> Timebases]
    /\ pc = "cue" /\ idx = 0 /\ run = 0
    /\ args = <<>> /\ tagsOf = <<>> /\ chaptersOf = <<>> /\ fs = <<>>
    /\ performer = "" /\ title = ""
    /\ REPLACE_CUE = TRUE /\ CUE_PATH = Path("", "") /\ CUE_CONTENTS = <<>>
    /\ accumulated_time = 0 /\ track_index = 0 /\ yielded = <<>>
    /\ written = <<>> /\ transcoded = {} /\ caught = {}
    /\ raised = NotRaised

NextCue == NextEntry

SpecCue == InitCue /\ [][NextCue]_vars

----------------------------------------------------------------------------
(* Properties.                                                             *)

\* The lines of a file, and what the claims say about them.
HasLine(file, line) ==
    \E i \in 1..Len(Lines(file.data)) : Lines(file.data)[i] = line

HasFileLine(file) ==
    \E i \in 1..Len(Lines(file.data)) : StartsWithFile(Lines(file.data)[i])

\* The lines of a file that do not start with 'FILE ', verbatim, in order.
NonFileText(file) ==
    Join(SelectSeq(Lines(file.data), LAMBDA line : ~StartsWithFile(line)))

\* The cue sheet computed from the chapters of the input file.
FreshCue(stem) ==
    LET r == ExtractChapters(chaptersOf[stem])
    IN  Join(create_cue_sheet(r.names, r.track_times, r.timebases))

\* The cue file with the given track body for the input file.
CueTextWith(stem, body) ==
    LET info == book_info(tagsOf[stem], stem)
    IN  CueFileText(info.performer, info.title, FileLineOga(stem), body)

\* The cue files written: written[k] for k in Writes.
Writes == DOMAIN written

\* The existing cue file has a FILE line and none is the computed one.
Mismatch(w) ==
    /\ w.before.exists
    /\ HasFileLine(w.before)
    /\ ~HasLine(w.before, FileLineOga(w.stem))

\* C1: a cue file written for an input file whose existing cue file has a
\* line equal to the computed FILE line goes to the canonical path; when the
\* existing cue file has FILE lines and none matches, it goes to the
\* '_oga.cue' side path and the canonical file is the same after the write
\* as before it.
C1_MergeDestination ==
    \A k \in Writes : LET w == written[k] IN
        /\ (w.before.exists /\ HasLine(w.before, FileLineOga(w.stem)))
               => w.path = CanonicalCue(w.stem)
        /\ Mismatch(w)
               => (w.path = SideCue(w.stem) /\ w.after = w.before)

C1_Witness ==
    \E k \in Writes : LET w == written[k] IN
        /\ Mismatch(w)
        /\ w.path = SideCue(w.stem)
        /\ w.after = w.before
        /\ fs[SideCue(w.stem)] = File(w.content)

\* C2 as claimed: in the PRESERVE case the side file holds the cue sheet
\* freshly computed from the chapters, and no line kept from the existing
\* cue file is in it.
C2_PreserveWritesFresh ==
    \A k \in Writes : LET w == written[k] IN
        (~w.replace /\ chaptersOf[w.stem] # ChaptersFail) =>
            /\ w.content = CueTextWith(w.stem, FreshCue(w.stem))
            /\ \A i \in 1..Len(Lines(w.before.data)) :
                   ~StartsWithFile(Lines(w.before.data)[i])
                       => ~HasLine(File(w.content), Lines(w.before.data)[i])

\* C2 as amended: in the PRESERVE case the chapters are not read; what is
\* written after the PERFORMER, TITLE and FILE lines is the existing cue
\* file's lines that do not start with 'FILE ', verbatim and in order.  The
\* freshly computed cue sheet is written in the REPLACE case only.
C2_PreserveWritesRetained ==
    \A k \in Writes : LET w == written[k] IN
        /\ ~w.replace =>
               w.content = CueTextWith(w.stem, NonFileText(w.before))
        /\ w.replace =>
               w.content = CueTextWith(w.stem, FreshCue(w.stem))

C2_Witness ==
    \E k \in Writes : LET w == written[k] IN
        /\ ~w.replace
        /\ chaptersOf[w.stem] \notin {ChaptersFail, <<>>}
        /\ NonFileText(w.before) # <<>>
        /\ NonFileText(w.before) # FreshCue(w.stem)
        /\ w.content = CueTextWith(w.stem, NonFileText(w.before))

\* A timestamp is not after another.
StampLeq(a, b) ==
    \/ a[1] < b[1]
    \/ a[1] = b[1] /\ a[2] < b[2]
    \/ a[1] = b[1] /\ a[2] = b[2] /\ a[3] <= b[3]

\* The <<minutes, seconds, frames>> of a yielded entry's INDEX line.
Stamp(entry) == <<entry[5][2], entry[5][3], entry[5][4]>>

\* C3: the timestamps create_cue_sheet emits never decrease from a track to
\* the next, whatever the durations (>= 0) and time bases (> 0), time bases
\* that differ between chapters included.
C3_Monotone ==
    \A i \in 1..(Len(yielded) - 1) :
        StampLeq(Stamp(yielded[i]), Stamp(yielded[i + 1]))

\* The chapters whose start, end and time base all parse.
WellFormed(chapters) ==
    SelectSeq(chapters, LAMBDA c :
                  IsInt(c.start) /\ IsInt(c.end) /\ IsInt(c.time_base))

\* The cue sheet with one track per well-formed chapter, in order, with the
\* chapter's own title, duration and (clamped) time base.
CueOfWellFormed(chapters) ==
    LET good == WellFormed(chapters)
    IN  Join(create_cue_sheet(
                 [i \in 1..Len(good) |-> good[i].title],
                 [i \in 1..Len(good) |-> good[i].end[2] - good[i].start[2]],
                 [i \in 1..Len(good) |->
                     IF good[i].time_base[2] > TimebaseLimit
                     THEN TimebaseClamp ELSE good[i].time_base[2]]))

\* C4: a chapter whose start, end or time base does not parse is skipped,
\* and the cue sheet written has exactly one track per remaining chapter, in
\* order, with that chapter's title and a start time accumulated from the
\* durations of the well-formed chapters before it.
C4_SkipsMalformed ==
    \A k \in Writes : LET w == written[k] IN
        w.replace =>
            w.content = CueTextWith(w.stem, CueOfWellFormed(chaptersOf[w.stem]))

\* The value of the first tag whose key, upper-cased, is one of wanted (in
\* that order of preference), else the default.
FirstTag(tags, wanted, default) ==
    LET has(k) == \E i \in 1..Len(tags) : Upper(tags[i][1]) = wanted[k]
        val(k) == tags[CHOOSE i \in 1..Len(tags) :
                         /\ Upper(tags[i][1]) = wanted[k]
                         /\ \A j \in 1..(i - 1) :
                                Upper(tags[j][1]) # wanted[k]][2]
        found  == {k \in 1..Len(wanted) : has(k)}
    IN  IF found = {} THEN default
        ELSE val(CHOOSE k \in found : \A m \in found : k <= m)

\* C5: book_info does not fail on absent metadata: once it has run for a
\* file that has format tags, no exception has ended the run there, the
\* performer is the first of the artist, performer tags (any case) or '',
\* and the title is the album tag, else the title tag, else the file stem.
C5_BookInfoNeverFails ==
    (pc # "book_info" /\ tagsOf[args[idx]] # NoTags) =>
        /\ ~(pc = "aborted" /\ raised[3] = "book_info")
        /\ pc \in {"transcode", "cover", "description", "scan", "chapters",
                   "write"} =>
               /\ performer = FirstTag(tagsOf[args[idx]],
                                       <<"ARTIST", "PERFORMER">>, "")
               /\ title = FirstTag(tagsOf[args[idx]],
                                   <<"ALBUM", "TITLE">>, args[idx])

\* The files of this run that have their cue file written.
WrittenNow == {written[k].idx : k \in {j \in Writes : written[j].run = run}}

\* C6 as claimed: when the processing of a file fails, every later file of
\* the list still gets its cue file written before the run ends.
C6_LaterFilesProcessed ==
    pc = "aborted" => \A j \in (raised[2] + 1)..Len(args) : j \in WrittenNow

\* C6 as amended: a run ends either with every file's cue file written, the
\* files whose cover art or description extraction raised included, or with
\* an exception of book_info, of the transcoding or of the chapter probe,
\* which leaves that file and every later one without a cue file.
C6_OnlySideAssetsSurvive ==
    /\ pc = "done" => WrittenNow = 1..Len(args)
    /\ pc = "aborted" =>
           /\ raised[3] \in {"book_info", "transcode", "chapters"}
           /\ WrittenNow = 1..(raised[2] - 1)

C6_Witness ==
    /\ pc = "done"
    /\ Len(args) > 1
    /\ <<run, 1, "cover">> \in caught
    /\ <<run, 1, "description">> \in caught
    /\ WrittenNow = 1..Len(args)

\* C7: a file that has its cue file written in one run has, in the next run
\* on the same files, no transcoding, and its cue file written to the same
\* path with the same bytes.
C7_RerunIdempotent ==
    \A k \in Writes : LET w == written[k] IN
        /\ <<w.run + 1, w.stem>> \notin transcoded
        /\ \A j \in Writes : LET v == written[j] IN
               (v.stem = w.stem /\ v.run = w.run + 1) =>
                   (v.path = w.path /\ v.content = w.content)

C7_Witness ==
    \E k, j \in Writes : LET w == written[k] v == written[j] IN
        /\ v.stem = w.stem /\ v.run = w.run + 1
        /\ <<w.run, w.stem>> \in transcoded
        /\ Len(w.content) > 6
        /\ v.content = w.content

\* A line is the single token of the given kind and its newline (the last
\* line of a file may lack the newline).
IsLine(lines, i, kind) ==
    /\ lines[i][1][1] = kind
    /\ \/ Len(lines[i]) = 2 /\ lines[i][2] = NL
       \/ Len(lines[i]) = 1 /\ i = Len(lines)

\* C8: every cue file written is the PERFORMER line, the TITLE line, the
\* FILE line and then, per track, a TRACK line, a TITLE line and an INDEX
\* line, each a line of its own.  Stated of the cue files whose tracks the
\* tool computes itself (REPLACE), where no line of an existing cue file is
\* written.
C8_LineStructure ==
    \A k \in Writes : LET w == written[k] IN
        w.replace =>
        LET lines == Lines(w.content)
        IN  /\ Len(lines) >= 3
            /\ (Len(lines) - 3) % 3 = 0
            /\ IsLine(lines, 1, "PERFORMER")
            /\ IsLine(lines, 2, "TITLE")
            /\ IsLine(lines, 3, "FILE")
            /\ \A n \in 1..((Len(lines) - 3) \div 3) :
                   /\ IsLine(lines, 3 * n + 1, "TRACK")
                   /\ IsLine(lines, 3 * n + 2, "TITLE")
                   /\ IsLine(lines, 3 * n + 3, "INDEX")

\* The sum of the first n elements.
RECURSIVE SumTo(_, _)
SumTo(seq, n) == IF n = 0 THEN 0 ELSE seq[n] + SumTo(seq, n - 1)

\* C9: the timestamp of every track is minutes = t div (tb*60), seconds =
\* (t mod (tb*60)) div tb, frames = (((t mod (tb*60)) mod tb) * 75) div tb,
\* t being the sum of the durations of the tracks before it.  Stated of the
\* calls whose tracks all have one time base, so that t is in its units.
C9_ExactTimestamps ==
    (\A i, j \in 1..Len(timebases) : timebases[i] = timebases[j]) =>
    \A i \in 1..Len(yielded) :
        LET t  == SumTo(track_times, i - 1)
            tb == timebases[i]
        IN  Stamp(yielded[i]) =
                << t \div (tb * 60),
                   (t % (tb * 60)) \div tb,
                   (((t % (tb * 60)) % tb) * 75) \div tb >>

\* C10: the side path is chosen exactly when the canonical cue file exists,
\* has a line that starts with 'FILE ' and has no line equal to the computed
\* FILE line, wherever those lines are; in every other case the canonical
\* cue file is overwritten.
C10_DecisionByLineSet ==
    \A k \in Writes : LET w == written[k] IN
        /\ ~w.replace <=> Mismatch(w)
        /\ ~w.replace => w.path = SideCue(w.stem)
        /\ w.replace =>
               (w.path = CanonicalCue(w.stem) /\ w.after = File(w.content))

\* A non-matching FILE line, then the computed one: REPLACE.
C10_Witness ==
    \E k \in Writes : LET w == written[k] IN
        /\ w.replace
        /\ w.before.exists
        /\ Len(Lines(w.before.data)) > 1
        /\ Lines(w.before.data)[1] = OtherFileLine(w.stem)
        /\ Lines(w.before.data)[2] = FileLineOga(w.stem)
        /\ w.path = CanonicalCue(w.stem)
        /\ w.after = File(w.content)

====
